---- MODULE Spec2Model ----
(***************************************************************************)
(* SVG images with a PNG fallback in a word-processing document:           *)
(*   document/svg.go              Document.AddImageSVG, Run.AddDrawingInlineSVG *)
(*   schema/soo/dml/svgblip.go     SVGBlip.MarshalXML / UnmarshalXML         *)
(*   schema/soo/wml/svg_helpers.go AlternateContentSVGRun, FallbackDrawing   *)
(*                                                                         *)
(* Strings built by fmt.Sprintf are tuples of their pieces:                *)
(*   "rId7"              is <<"rId", 7>>                                   *)
(*   "media/image3.svg"  is <<"media/image", 3, ".", "svg">>               *)
(*   "image/" + "png"    is <<"image/", "png">>                            *)
(* and the empty string of that kind is <<>>.  A format tag or a file path  *)
(* is a plain string, "" when empty.                                       *)
(***************************************************************************)
EXTENDS Integers, Sequences, FiniteSets, TLC

VARIABLES
    Images,        \* d.Images: the values appended, in registration order
    Rels,          \* the document's relationship list (d._ead)
    ContentTypes,  \* d.ContentTypes: the Default entries, in insertion order
    returned,      \* every ImageRef handed back by a successful AddImageSVG
    Extra,         \* the run's Extra list (r._bbdb.Extra)
    last,          \* the last call: its operation, arguments and error result
    out,           \* the result of the last codec call
    calls,         \* AddImageSVG calls in progress on goroutines: position and locals
    serialized     \* the caller lets one AddImageSVG call run at a time

vars == <<Images, Rels, ContentTypes, returned, Extra, last, out, calls, serialized>>

----------------------------------------------------------------------------
(* Bounds                                                                  *)

MaxCalls   == 2   \* successful AddImageSVG calls on one document
MaxInitRel == 2   \* highest relationship number a document starts with
MaxBuilds  == 1   \* successful AddDrawingInlineSVG calls on one run

\* Arguments tried: a negative, a zero and positive sizes; nil/empty and
\* non-empty byte slices (only len(data) = 0 is read).
Widths   == {-1, 1, 2}
Heights  == {0, 1, 2}
DataLens == {0, 1}

----------------------------------------------------------------------------
(* Strings                                                                 *)

EmptyStr == <<>>

FormatRelID(n) == <<"rId", n>>

FormatTarget(n, format) == <<"media/image", n, ".", format>>

ImageType == "http://schemas.openxmlformats.org/officeDocument/2006/relationships/image"

----------------------------------------------------------------------------
(* common.Image, common.ImageRef                                           *)

Image(x, y, format, dataLen) ==
    [Size |-> [X |-> x, Y |-> y], Format |-> format, DataLen |-> dataLen, Path |-> ""]

\* An ImageRef is a value: assigning or appending it copies it.
MakeImageRef(img) ==
    [format |-> img.Format, size |-> img.Size, relID |-> EmptyStr, target |-> EmptyStr]

SetRelID(ref, id) == [ref EXCEPT !.relID = id]

SetTarget(ref, target) == [ref EXCEPT !.target = target]

\* What the image list keeps of a handle: the value as it is when appended,
\* before SetRelID and SetTarget act on the caller's variable.
ListEntry(ref) == [format |-> ref.format, size |-> ref.size]

----------------------------------------------------------------------------
(* Relationships and content types                                         *)

UsedIds(rels) == {rels[i].IdAttr : i \in DOMAIN rels}

RECURSIVE NextFreeId(_, _)
NextFreeId(rels, n) ==
    IF FormatRelID(n) \in UsedIds(rels) THEN NextFreeId(rels, n + 1) ELSE n

\* Relationships.AddRelationship: the new relationship, with the first unused
\* id from rId<len+1> upwards.
NewRelationship(rels, target, ctype) ==
    [IdAttr |-> FormatRelID(NextFreeId(rels, Len(rels) + 1)),
     TargetAttr |-> target, TypeAttr |-> ctype]

AddRelationship(rels, target, ctype) ==
    Append(rels, NewRelationship(rels, target, ctype))

HasDefault(ct, ext) == \E i \in DOMAIN ct : ct[i].ext = ext

\* ContentTypes.EnsureDefault: one entry per extension, added when missing.
EnsureDefault(ct, ext, ctype) ==
    IF HasDefault(ct, ext)
    THEN [i \in DOMAIN ct |-> IF ct[i].ext = ext THEN [ext |-> ext, ctype |-> ctype] ELSE ct[i]]
    ELSE Append(ct, [ext |-> ext, ctype |-> ctype])

----------------------------------------------------------------------------
(* Document.AddImage, called for the PNG                                   *)

AddImageInvalid(img) ==
    \/ img.DataLen < 0 /\ img.Path = ""
    \/ img.Format = ""
    \/ img.Size.X = 0
    \/ img.Size.Y = 0

AddImage(d, img) ==
    IF AddImageInvalid(img)
    THEN [doc |-> d, ref |-> MakeImageRef(img), err |-> TRUE]
    ELSE LET images == Append(d.Images, ListEntry(MakeImageRef(img)))
             fn     == FormatTarget(Len(images), img.Format)
             rel    == NewRelationship(d.Rels, fn, ImageType)
         IN [doc |-> [Images |-> images,
                      Rels |-> AddRelationship(d.Rels, fn, ImageType),
                      ContentTypes |-> EnsureDefault(d.ContentTypes, img.Format,
                                                     <<"image/", img.Format>>)],
             ref |-> SetTarget(SetRelID(MakeImageRef(img), rel.IdAttr), fn),
             err |-> FALSE]

----------------------------------------------------------------------------
(* Document.AddImageSVG                                                    *)

\* svg.go:24-29: the argument checks (a nil slice has length 0).
ArgsValid_svgOnly(svgLen, pngLen, width, height) ==
    ~(svgLen = 0) /\ ~(width <= 0 \/ height <= 0)

ArgsValid(svgLen, pngLen, width, height) ==
    ~(svgLen = 0 \/ pngLen = 0) /\ ~(width <= 0 \/ height <= 0)

\* svg.go:55: the target is formed from the list length after the append.
SvgTarget_beforeAppend(images, format) == FormatTarget(Len(images) - 1, format)

SvgTarget(images, format) == FormatTarget(Len(images), format)

\* svg.go:57
SvgContentType_add(ct) == Append(ct, [ext |-> "svg", ctype |-> <<"image/", "svg+xml">>])

SvgContentType(ct) == EnsureDefault(ct, "svg", <<"image/", "svg+xml">>)

\* svg.go:58-59: the handle that is returned
SvgRefFinal_noRelID(svgRef, rel, target) == SetTarget(svgRef, target)

SvgRefFinal(svgRef, rel, target) == SetTarget(SetRelID(svgRef, rel.IdAttr), target)

Failed(d) == [doc |-> d, png |-> MakeImageRef(Image(0, 0, "", 0)),
              svg |-> MakeImageRef(Image(0, 0, "", 0)), err |-> TRUE]

AddImageSVGCall(d, svgLen, pngLen, width, height) ==
    IF ~ArgsValid(svgLen, pngLen, width, height) THEN Failed(d)
    ELSE
    LET p == AddImage(d, Image(width, height, "png", pngLen)) IN
    IF p.err THEN Failed(d)
    ELSE
    LET svgImage == Image(width, height, "svg", svgLen)
        svgRef   == MakeImageRef(svgImage)
        images   == Append(p.doc.Images, ListEntry(svgRef))
        target   == SvgTarget(images, svgImage.Format)
        rel      == NewRelationship(p.doc.Rels, target, ImageType)
    IN  \* svgImage.Path is never set, so tempstorage.Add (svg.go:49-53) is not called
        [doc |-> [Images |-> images,
                  Rels |-> AddRelationship(p.doc.Rels, target, ImageType),
                  ContentTypes |-> SvgContentType(p.doc.ContentTypes)],
         png |-> p.ref,
         svg |-> SvgRefFinal(svgRef, rel, target),
         err |-> FALSE]

Doc == [Images |-> Images, Rels |-> Rels, ContentTypes |-> ContentTypes]

AddImageSVG ==
    \E svgLen \in DataLens, pngLen \in DataLens, width \in Widths, height \in Heights :
        LET r == AddImageSVGCall(Doc, svgLen, pngLen, width, height) IN
        /\ r.err \/ Len(Images) < 2 * MaxCalls
        /\ Images' = r.doc.Images
        /\ Rels' = r.doc.Rels
        /\ ContentTypes' = r.doc.ContentTypes
        /\ returned' = IF r.err THEN returned ELSE returned \o <<r.png, r.svg>>
        /\ last' = [op |-> "AddImageSVG", svgLen |-> svgLen, pngLen |-> pngLen,
                    width |-> width, height |-> height, err |-> r.err]
        /\ UNCHANGED <<Extra, out, calls, serialized>>

----------------------------------------------------------------------------
(* A new or opened document                                                *)

StrictlyIncreasing(s) == \A i, j \in DOMAIN s : i < j => s[i] < s[j]

InitRelNumbers ==
    {s \in UNION {[1..n -> 1..MaxInitRel] : n \in 0..MaxInitRel} : StrictlyIncreasing(s)}

InitRels ==
    {[i \in DOMAIN s |-> [IdAttr |-> FormatRelID(s[i]), TargetAttr |-> <<"part", s[i]>>,
                          TypeAttr |-> "other"]] : s \in InitRelNumbers}

InitContentTypes ==
    { <<>>,
      <<[ext |-> "xml", ctype |-> <<"application/", "xml">>]>>,
      <<[ext |-> "xml", ctype |-> <<"application/", "xml">>],
        [ext |-> "png", ctype |-> <<"image/", "png">>]>> }

InitDoc ==
    /\ Images = <<>>
    /\ Rels \in InitRels
    /\ ContentTypes \in InitContentTypes
    /\ returned = <<>>

Init ==
    /\ InitDoc
    /\ Extra = <<>>
    /\ last = [op |-> "none"]
    /\ out = [op |-> "none"]
    /\ calls = <<>>
    /\ serialized = TRUE

Next == AddImageSVG

Spec == Init /\ [][Next]_vars

----------------------------------------------------------------------------
(* Registration: properties of Spec                                        *)

Registered == last.op = "AddImageSVG" /\ ~last.err

\* The step is a successful AddImageSVG call.
RegisteredStep == last'.op = "AddImageSVG" /\ ~last'.err /\ Images' # Images

\* The step is an AddImageSVG call whose arguments are empty SVG bytes, empty
\* PNG bytes, a width <= 0 or a height <= 0.
InvalidArgsStep ==
    /\ last'.op = "AddImageSVG"
    /\ (last'.svgLen = 0 \/ last'.pngLen = 0 \/ last'.width <= 0 \/ last'.height <= 0)

CountDefault(ct, ext) == Cardinality({i \in DOMAIN ct : ct[i].ext = ext})

DefaultOf(ct, ext) == {ct[i].ctype : i \in {j \in DOMAIN ct : ct[j].ext = ext}}

\* C1: every ImageRef returned by a successful AddImageSVG call, the PNG and
\* the SVG handle alike, has a non-empty relationship id, and any two handles
\* returned on one document (those of one call included) have different ids.
C1_RelIDsNonEmptyAndDistinct ==
    /\ \A i \in DOMAIN returned : returned[i].relID # EmptyStr
    /\ \A i, j \in DOMAIN returned : i # j => returned[i].relID # returned[j].relID

\* Two calls on a document that started with rId2 alone: four handles.
C1_Witness ==
    /\ Len(returned) = 4
    /\ Len(Rels) = 5
    /\ Rels[1].IdAttr = FormatRelID(2)

C2_OneEntryPerTag ==
    Len(returned) >= 2 =>
        /\ CountDefault(ContentTypes, "svg") = 1
        /\ DefaultOf(ContentTypes, "svg") = {<<"image/", "svg+xml">>}
        /\ CountDefault(ContentTypes, "png") = 1
        /\ DefaultOf(ContentTypes, "png") = {<<"image/", "png">>}

C2_RepeatAddsNoEntry ==
    (RegisteredStep /\ Len(returned) >= 2) =>
        /\ Len(ContentTypes') = Len(ContentTypes)
        /\ Len(Images') = Len(Images) + 2

\* C2: after n >= 1 successful AddImageSVG calls the content-type table has
\* exactly one default entry for "svg", image/svg+xml, and exactly one for
\* "png", image/png; a repeated call adds two assets and no table entry.
C2_ContentTypesIdempotent == []C2_OneEntryPerTag /\ [][C2_RepeatAddsNoEntry]_vars

\* A second call was made on a document whose table started empty.
C2_Witness ==
    /\ Len(returned) = 4
    /\ Len(ContentTypes) = 2

C3_Layout ==
    /\ Len(Images) = Len(returned)
    /\ \A k \in DOMAIN Images :
        /\ Images[k].format = (IF k % 2 = 1 THEN "png" ELSE "svg")
        /\ Images[k] = ListEntry(returned[k])
        /\ returned[k].target = FormatTarget(k, Images[k].format)
        /\ \E i \in DOMAIN Rels : /\ Rels[i].IdAttr = returned[k].relID
                                  /\ Rels[i].TargetAttr = returned[k].target
    /\ \A j, k \in DOMAIN returned : j # k => returned[j].target # returned[k].target

C3_AppendsTwo ==
    RegisteredStep =>
        /\ Len(Images') = Len(Images) + 2
        /\ SubSeq(Images', 1, Len(Images)) = Images
        /\ Images'[Len(Images) + 1].format = "png"
        /\ Images'[Len(Images) + 2].format = "svg"

\* C3: each successful AddImageSVG call appends exactly two assets, the PNG
\* and then the SVG; after n calls on a fresh document the list has 2n
\* entries in registration order, and the asset at position k was given the
\* target path media/image<k>.<format> (in its relationship and its handle),
\* so that all target paths of the document differ.
C3_TwoAssetsPerCallInOrder == []C3_Layout /\ [][C3_AppendsTwo]_vars

C3_Witness ==
    /\ Len(Images) = 4
    /\ returned[4].target = FormatTarget(4, "svg")
    /\ returned[3].target = FormatTarget(3, "png")

\* C4: an AddImageSVG call with empty SVG bytes, empty PNG bytes, width <= 0
\* or height <= 0 returns an error and leaves the image list, the
\* relationships and the content types as they were.
C4_InvalidArgsRejected ==
    [][InvalidArgsStep =>
        /\ last'.err
        /\ Images' = Images
        /\ Rels' = Rels
        /\ ContentTypes' = ContentTypes
        /\ returned' = returned]_vars

\* A call with PNG bytes missing and everything else valid, on a document
\* that already has a registered pair.
C4_Witness ==
    /\ last.op = "AddImageSVG"
    /\ last.err
    /\ last.svgLen = 1 /\ last.pngLen = 0 /\ last.width = 1 /\ last.height = 1
    /\ Len(Images) = 2

----------------------------------------------------------------------------
(* Run.AddDrawingInlineSVG                                                 *)

\* measurement.Pixel72 and measurement.Point in points, and 1/measurement.EMU:
\* int64(float64(x*Pixel72) / EMU) is x * 12700 for the sizes used here.
Pixel72 == 1

Point == 1

EMUPerPoint == 12700

SVGBlipURI == "{96DAC541-7B7A-43D3-8B79-37D633B846F1}"

PictureURI == "http://schemas.openxmlformats.org/drawingml/2006/picture"

\* A uint32 is its top bit and its low 31 bits: top * 2^31 + low.
Uint32(top, low) == [top |-> top, low |-> low]

\* rand.Uint32(): the smallest and the largest 32-bit value, 0 and 2^32 - 1.
RandVals == {Uint32(0, 0), Uint32(1, 2147483647)}

\* 0x7FFFFFFF & x clears the top bit
Mask31(x) == x.low

\* svg.go:84-85
InlineExtent_fromSvg(svgImg, pngImg) ==
    [Cx |-> (svgImg.size.X * Pixel72) * EMUPerPoint,
     Cy |-> (svgImg.size.Y * Pixel72) * EMUPerPoint]

InlineExtent(svgImg, pngImg) ==
    [Cx |-> (pngImg.size.X * Pixel72) * EMUPerPoint,
     Cy |-> (pngImg.size.Y * Pixel72) * EMUPerPoint]

\* svg.go:127-128
XfrmExt(svgImg, pngImg) ==
    [Cx |-> pngImg.size.X * Point, Cy |-> pngImg.size.Y * Point]

\* svg.go:94-101
RelIDsFound_pngOnly(svgImg, pngImg) == ~(pngImg.relID = EmptyStr)

RelIDsFound(svgImg, pngImg) ==
    ~(pngImg.relID = EmptyStr) /\ ~(svgImg.relID = EmptyStr)

NoExtLst == [present |-> FALSE, Ext |-> <<>>]

\* svg.go:106-115: the PNG as the blip, the SVG in the one extension
ChoiceBlip(pngRelID, svgRelID) ==
    [Embed |-> pngRelID,
     ExtLst |-> [present |-> TRUE,
                 Ext |-> <<[Uri |-> SVGBlipURI, Any |-> <<[EmbedAttr |-> svgRelID]>>]>>]]

\* svg.go:152-154: the PNG alone
FallbackBlip_svg(pngRelID, svgRelID) == [Embed |-> svgRelID, ExtLst |-> NoExtLst]

FallbackBlip(pngRelID, svgRelID) == [Embed |-> pngRelID, ExtLst |-> NoExtLst]

Pic(id, blip, ext) ==
    [CNvPrId |-> id, Blip |-> blip, XfrmOff |-> [X |-> 0, Y |-> 0], XfrmExt |-> ext,
     Prst |-> "rect"]

Drawing(extent, id, pic) ==
    [Inline |-> [Extent |-> extent, DocPrId |-> id, Uri |-> PictureURI, Pic |-> pic]]

\* svg.go:168-179
AcRun(choiceDrawing, fallbackDrawing) ==
    [kind |-> "AlternateContentSVGRun",
     Choice |-> [Requires |-> "asvg", Drawing |-> choiceDrawing],
     Fallback |-> [Drawing |-> fallbackDrawing]]

\* svg.go:182
AppendExtra_replace(extra, acRun) == <<acRun>>

AppendExtra(extra, acRun) == Append(extra, acRun)

\* r1 and r2 are the two values rand.Uint32() returns.
AddDrawingInlineSVGCall(extra, svgImg, pngImg, r1, r2) ==
    LET choiceExtent == InlineExtent(svgImg, pngImg)
        docPrID      == Mask31(r1)
    IN
    IF ~RelIDsFound(svgImg, pngImg) THEN [extra |-> extra, err |-> TRUE]
    ELSE
    LET pngRelID   == pngImg.relID
        svgRelID   == svgImg.relID
        choicePic  == Pic(docPrID, ChoiceBlip(pngRelID, svgRelID), XfrmExt(svgImg, pngImg))
        choiceDrawing == Drawing(choiceExtent, docPrID, choicePic)
        fallbackID == Mask31(r2)
        fallbackPic == Pic(fallbackID, FallbackBlip(pngRelID, svgRelID), choicePic.XfrmExt)
        fallbackDrawing == Drawing(choiceDrawing.Inline.Extent, fallbackID, fallbackPic)
    IN [extra |-> AppendExtra(extra, AcRun(choiceDrawing, fallbackDrawing)), err |-> FALSE]

\* A handle that was made and never linked into the relationships.
Unlinked == MakeImageRef(Image(2, 2, "png", 1))

\* The handles passed to AddDrawingInlineSVG: the PNG and the SVG of the first
\* registered pair, the PNG of the second, and the unlinked handle.
Handles == {returned[i] : i \in DOMAIN returned \cap 1..3} \cup {Unlinked}

IsAcRun(x) == x.kind = "AlternateContentSVGRun"

Builds == Cardinality({i \in DOMAIN Extra : IsAcRun(Extra[i])})

AddDrawingInlineSVG ==
    \E svgImg \in Handles, pngImg \in Handles, r1 \in RandVals, r2 \in RandVals :
        LET r == AddDrawingInlineSVGCall(Extra, svgImg, pngImg, r1, r2) IN
        /\ r.err \/ Builds < MaxBuilds
        /\ Extra' = r.extra
        /\ last' = [op |-> "AddDrawingInlineSVG", svgImg |-> svgImg, pngImg |-> pngImg,
                    err |-> r.err]
        /\ UNCHANGED <<Images, Rels, ContentTypes, returned, out, calls, serialized>>

\* The document of the build runs: two pairs of different sizes registered on
\* a new document.
PairSizes == <<[X |-> 1, Y |-> 2], [X |-> 2, Y |-> 1]>>

EmptyDoc == [Images |-> <<>>, Rels |-> <<>>, ContentTypes |-> <<>>]

\* What the run's Extra list may hold before the first call.
OtherExtra == [kind |-> "other"]

InitRegistered ==
        LET a == AddImageSVGCall(EmptyDoc, 1, 1, PairSizes[1].X, PairSizes[1].Y)
            b == AddImageSVGCall(a.doc, 1, 1, PairSizes[2].X, PairSizes[2].Y)
        IN /\ Images = b.doc.Images
           /\ Rels = b.doc.Rels
           /\ ContentTypes = b.doc.ContentTypes
           /\ returned = <<a.png, a.svg, b.png, b.svg>>

InitBuild ==
    /\ InitRegistered
    /\ Extra \in {<<>>, <<OtherExtra>>}
    /\ last = [op |-> "none"]
    /\ out = [op |-> "none"]
    /\ calls = <<>>
    /\ serialized = TRUE

NextBuild == AddDrawingInlineSVG

SpecBuild == InitBuild /\ [][NextBuild]_vars

----------------------------------------------------------------------------
(* Fragment construction: properties of SpecBuild                          *)

Built == last.op = "AddDrawingInlineSVG" /\ ~last.err

BuildStep == last'.op = "AddDrawingInlineSVG"

\* The fragment of the last successful call
Fragment == Extra[Len(Extra)]

ChoiceInline == Fragment.Choice.Drawing.Inline

FallbackInline == Fragment.Fallback.Drawing.Inline

\* C5: AddDrawingInlineSVG returns an error exactly when the relationship id
\* of the SVG handle or of the PNG handle is empty, and a call that returns
\* an error leaves the run's Extra list as it was.
C5_ErrorIffRelIDEmpty ==
    [][BuildStep =>
        /\ last'.err <=> (last'.svgImg.relID = EmptyStr \/ last'.pngImg.relID = EmptyStr)
        /\ last'.err => Extra' = Extra]_vars

\* A registered SVG handle with a PNG handle that was never linked, on a run
\* that already holds a fragment.
C5_Witness ==
    /\ last.op = "AddDrawingInlineSVG"
    /\ last.err
    /\ last.svgImg = returned[2]
    /\ last.pngImg = Unlinked
    /\ Len(Extra) = 2

\* C6: in the fragment of a successful call the fallback branch has the
\* extent of the preferred branch, inline and picture transform alike, and
\* that extent is computed from the pixel size of the PNG handle alone.
C6_ExtentFromPNG ==
    Built =>
        /\ FallbackInline.Extent = ChoiceInline.Extent
        /\ FallbackInline.Pic.XfrmExt = ChoiceInline.Pic.XfrmExt
        /\ ChoiceInline.Extent = [Cx |-> 12700 * last.pngImg.size.X,
                                  Cy |-> 12700 * last.pngImg.size.Y]
        /\ ChoiceInline.Pic.XfrmExt = [Cx |-> last.pngImg.size.X,
                                       Cy |-> last.pngImg.size.Y]

\* The two handles have different sizes.
C6_Witness ==
    /\ Built
    /\ last.svgImg = returned[2]
    /\ last.pngImg = returned[3]
    /\ last.svgImg.size = [X |-> 1, Y |-> 2]
    /\ last.pngImg.size = [X |-> 2, Y |-> 1]
    /\ ChoiceInline.Extent = [Cx |-> 25400, Cy |-> 12700]

ChoiceBlipOf(f) == f.Choice.Drawing.Inline.Pic.Blip

FallbackBlipOf(f) == f.Fallback.Drawing.Inline.Pic.Blip

\* The preferred branch: the PNG id as the blip, and one extension, with the
\* fixed URI, whose payload is an SVGBlip with the SVG id.
C7_Preferred ==
    /\ ChoiceBlipOf(Fragment).Embed = last.pngImg.relID
    /\ ChoiceBlipOf(Fragment).ExtLst.present
    /\ Len(ChoiceBlipOf(Fragment).ExtLst.Ext) = 1
    /\ ChoiceBlipOf(Fragment).ExtLst.Ext[1].Uri = "{96DAC541-7B7A-43D3-8B79-37D633B846F1}"
    /\ ChoiceBlipOf(Fragment).ExtLst.Ext[1].Any = <<[EmbedAttr |-> last.svgImg.relID]>>

\* The fallback branch: the same PNG id as the blip, and no extension list.
C7_Fallback ==
    /\ FallbackBlipOf(Fragment).Embed = last.pngImg.relID
    /\ ~FallbackBlipOf(Fragment).ExtLst.present
    /\ FallbackBlipOf(Fragment).ExtLst.Ext = <<>>

\* C7 as claimed: the preferred branch embeds the PNG id and carries exactly
\* one extension, SVGBlipURI with an SVGBlip of the SVG id; the fallback
\* branch embeds the same PNG id and has no extension list, so that the SVG
\* id appears nowhere in the fallback branch.
C7_SvgIdNowhereInFallback ==
    Built =>
        /\ C7_Preferred
        /\ C7_Fallback
        /\ FallbackBlipOf(Fragment).Embed # last.svgImg.relID

\* C7, amended: the preferred branch embeds the PNG id and carries exactly
\* one extension, SVGBlipURI with an SVGBlip of the SVG id; the fallback
\* branch embeds the same PNG id and has no extension list, so that the SVG
\* id appears in the fallback branch only when the two handles passed have
\* the same relationship id.
C7_BranchReferences ==
    Built =>
        /\ C7_Preferred
        /\ C7_Fallback
        /\ (FallbackBlipOf(Fragment).Embed = last.svgImg.relID
              => last.svgImg.relID = last.pngImg.relID)

\* The SVG and the PNG handle of the first registered pair.
C7_Witness ==
    /\ Built
    /\ last.svgImg = returned[2]
    /\ last.pngImg = returned[1]
    /\ ChoiceBlipOf(Fragment).Embed = FormatRelID(1)
    /\ ChoiceBlipOf(Fragment).ExtLst.Ext[1].Any[1].EmbedAttr = FormatRelID(2)
    /\ FallbackBlipOf(Fragment).Embed = FormatRelID(1)

\* C8: a successful AddDrawingInlineSVG call lengthens the run's Extra list
\* by one, its new last element is the AlternateContentSVGRun of that call
\* with Choice and Fallback set, and the elements that were there stay where
\* they were; no call changes the image list, the relationships or the
\* content types.
C8_ExtraAppendOnly ==
    [][BuildStep =>
        /\ Images' = Images
        /\ Rels' = Rels
        /\ ContentTypes' = ContentTypes
        /\ ~last'.err =>
            /\ Len(Extra') = Len(Extra) + 1
            /\ \A i \in DOMAIN Extra : Extra'[i] = Extra[i]
            /\ IsAcRun(Extra'[Len(Extra')])
            /\ DOMAIN Extra'[Len(Extra')] = {"kind", "Choice", "Fallback"}
            /\ Extra'[Len(Extra')].Choice.Requires = "asvg"
            /\ ChoiceBlipOf(Extra'[Len(Extra')]).Embed = last'.pngImg.relID
            /\ ChoiceBlipOf(Extra'[Len(Extra')]).ExtLst.Ext[1].Any[1].EmbedAttr
                   = last'.svgImg.relID
            /\ FallbackBlipOf(Extra'[Len(Extra')]).Embed = last'.pngImg.relID]_vars

\* A fragment was appended to a run whose Extra list held another element.
C8_Witness ==
    /\ Built
    /\ Len(Extra) = 2
    /\ Extra[1] = OtherExtra
    /\ IsAcRun(Extra[2])

\* The identifiers of a fragment: DocPr id and picture CNvPr id of each branch.
ChoiceIds(f) == <<f.Choice.Drawing.Inline.DocPrId, f.Choice.Drawing.Inline.Pic.CNvPrId>>

FallbackIds(f) == <<f.Fallback.Drawing.Inline.DocPrId, f.Fallback.Drawing.Inline.Pic.CNvPrId>>

\* C11: in every fragment of a successful call the identifier of the
\* preferred branch differs from the identifier of the fallback branch,
\* whatever the two values rand.Uint32() returned.
C11_BranchIdsDiffer ==
    Built => ChoiceInline.DocPrId # FallbackInline.DocPrId

\* What holds instead: the two identifiers are the low 31 bits of two draws
\* that do not depend on each other, so that every pair of 31-bit values can
\* come out, equal pairs included.
BranchIdsAreMaskedDraws ==
    Built => \E r1 \in RandVals, r2 \in RandVals :
                /\ ChoiceIds(Fragment) = <<Mask31(r1), Mask31(r1)>>
                /\ FallbackIds(Fragment) = <<Mask31(r2), Mask31(r2)>>

\* C12: every identifier of a fragment, DocPr id and picture CNvPr id of
\* both branches, lies in 1 .. 2^31 - 1, and within a branch the DocPr id
\* equals the picture CNvPr id.
C12_IdsPositive31Bit ==
    Built =>
        /\ \A i \in 1..2 : /\ 1 <= ChoiceIds(Fragment)[i]
                           /\ ChoiceIds(Fragment)[i] <= 2147483647
                           /\ 1 <= FallbackIds(Fragment)[i]
                           /\ FallbackIds(Fragment)[i] <= 2147483647
        /\ ChoiceIds(Fragment)[1] = ChoiceIds(Fragment)[2]
        /\ FallbackIds(Fragment)[1] = FallbackIds(Fragment)[2]

\* What holds instead: the same with 0 as the lower end of the range.
IdsWithin31Bits ==
    Built =>
        /\ \A i \in 1..2 : /\ 0 <= ChoiceIds(Fragment)[i]
                           /\ ChoiceIds(Fragment)[i] <= 2147483647
                           /\ 0 <= FallbackIds(Fragment)[i]
                           /\ FallbackIds(Fragment)[i] <= 2147483647
        /\ ChoiceIds(Fragment)[1] = ChoiceIds(Fragment)[2]
        /\ FallbackIds(Fragment)[1] = FallbackIds(Fragment)[2]

----------------------------------------------------------------------------
(* encoding/xml, as far as the codec uses it.  A name or an attribute name  *)
(* with colons is the tuple of its parts: "r:embed" is <<"r", "embed">>,    *)
(* "" is <<>>.  An attribute value is a tuple of pieces, as a relationship  *)
(* id is: "rId5" is <<"rId", 5>>.                                          *)

Name(space, local) == [Space |-> space, Local |-> local]

Attr(local, value) == [Name |-> Name("", local), Value |-> value]

StartElement(name, attr) == [tok |-> "start", Name |-> name, Attr |-> attr]

EndElement(name) == [tok |-> "end", Name |-> name]

\* The tokens an element's own marshaller writes between its tags.
Content(v) == [tok |-> "content", of |-> v]

Nil == [nil |-> TRUE]

\* EscapeText on the leading piece; the digits that follow are written as
\* they are.
EscapeString(str) ==
    CASE str = "R&" -> "R&amp;"
      [] str = "R<" -> "R&lt;"
      [] OTHER -> str

UnescapeString(str) ==
    CASE str = "R&amp;" -> "R&"
      [] str = "R&lt;" -> "R<"
      [] OTHER -> str

EscapeText(v) == IF v = <<>> THEN <<>> ELSE <<EscapeString(v[1])>> \o Tail(v)

UnescapeText(v) == IF v = <<>> THEN <<>> ELSE <<UnescapeString(v[1])>> \o Tail(v)

\* printer.writeStart: the name as given, an xmlns attribute for a name
\* with a Space, then the attributes, their values escaped.
WriteStart(t) ==
    [name |-> t.Name.Local,
     attrs |-> (IF t.Name.Space = "" THEN <<>>
                ELSE <<[name |-> <<"xmlns">>, value |-> EscapeText(<<t.Name.Space>>)]>>)
               \o [i \in DOMAIN t.Attr |->
                     [name |-> t.Attr[i].Name.Local, value |-> EscapeText(t.Attr[i].Value)]]]

\* Decoder.nsname: prefix:local is split at its colon.
ParseName(text) ==
    IF Len(text) = 2 THEN Name(text[1], <<text[2]>>) ELSE Name("", text)

\* Decoder.translate, with the prefixes the element's own attributes declare.
Translate(n, attrs, isElementName) ==
    LET decl == {i \in DOMAIN attrs : attrs[i].Name.Space = "xmlns"
                                      /\ attrs[i].Name.Local = <<n.Space>>}
    IN IF n.Space = "xmlns" THEN n
       ELSE IF n.Space = "" /\ ~isElementName THEN n
       ELSE IF decl # {} THEN Name(attrs[CHOOSE i \in decl : TRUE].Value[1], n.Local)
       ELSE n

\* Decoder.Token for a start tag
ReadStart(w) ==
    LET attrs == [i \in DOMAIN w.attrs |->
                    [Name |-> ParseName(w.attrs[i].name),
                     Value |-> UnescapeText(w.attrs[i].value)]]
    IN StartElement(Translate(ParseName(w.name), attrs, TRUE),
                    [i \in DOMAIN attrs |->
                       [Name |-> Translate(attrs[i].Name, attrs, FALSE),
                        Value |-> attrs[i].Value]])

\* Encoder.EncodeElement for a value with its own MarshalXML: its start tag,
\* what it writes inside, its end tag.
EncodeElement(v, start) ==
    <<StartElement(start.Name, start.Attr), Content(v), EndElement(start.Name)>>

----------------------------------------------------------------------------
(* dml.SVGBlip                                                             *)

SVGBlipNS == "http://schemas.microsoft.com/office/drawing/2016/SVG/main"

\* svgblip.go:18-30; failAt is the EncodeToken call that returns an error,
\* 0 when none does.
SVGBlip_MarshalXML(s, failAt) ==
    LET el == StartElement(Name("", <<"asvg", "svgBlip">>),
                           <<Attr(<<"xmlns", "asvg">>, <<SVGBlipNS>>),
                             Attr(<<"r", "embed">>, s.EmbedAttr)>>)
    IN IF failAt = 1 THEN [tokens |-> <<>>, err |-> TRUE]
       ELSE IF failAt = 2 THEN [tokens |-> <<el>>, err |-> TRUE]
       ELSE [tokens |-> <<el, EndElement(el.Name)>>, err |-> FALSE]

\* svgblip.go:35
IsEmbed_qualified(attr) == attr.Name.Local = <<"r", "embed">>

IsEmbed(attr) == attr.Name.Local = <<"embed">>

\* svgblip.go:34-38: every attribute is looked at, the last match is kept.
RECURSIVE ScanAttrs(_, _, _)
ScanAttrs(s, attrs, i) ==
    IF i > Len(attrs) THEN s
    ELSE ScanAttrs(IF IsEmbed(attrs[i]) THEN [s EXCEPT !.EmbedAttr = attrs[i].Value] ELSE s,
                   attrs, i + 1)

\* svgblip.go:33-40
SVGBlip_UnmarshalXML(s, start) == ScanAttrs(s, start.Attr, 1)

\* The values tried: no id, the ids of the document, ids that need escaping.
EmbedValues ==
    {EmptyStr, <<"R&", 1>>, <<"R<", 2>>} \cup {returned[i].relID : i \in DOMAIN returned}

\* xml.Marshal of an SVGBlip, then xml.Unmarshal into a new one.
SVGBlipRoundTrip ==
    \E t \in EmbedValues :
        LET m     == SVGBlip_MarshalXML([EmbedAttr |-> t], 0)
            w     == WriteStart(m.tokens[1])
            got   == SVGBlip_UnmarshalXML([EmbedAttr |-> EmptyStr], ReadStart(w))
        IN /\ out' = [op |-> "SVGBlipRoundTrip", in |-> t, tokens |-> m.tokens,
                      written |-> w, got |-> got]
           /\ UNCHANGED <<Images, Rels, ContentTypes, returned, Extra, last,
                        calls, serialized>>

RelationshipsNS == "http://schemas.openxmlformats.org/officeDocument/2006/relationships"

\* The start elements read from <asvg:svgBlip .../> with the namespace
\* declaration and the embed attribute in either order, the r prefix
\* declared by an enclosing element or not.
SVGBlipStarts ==
    {StartElement(Name(SVGBlipNS, <<"svgBlip">>), attrs) :
       attrs \in UNION {
         { <<[Name |-> Name("xmlns", <<"asvg">>), Value |-> <<SVGBlipNS>>],
             [Name |-> Name(sp, <<"embed">>), Value |-> v]>>,
           <<[Name |-> Name(sp, <<"embed">>), Value |-> v],
             [Name |-> Name("xmlns", <<"asvg">>), Value |-> <<SVGBlipNS>>]>> } :
         sp \in {"r", RelationshipsNS}, v \in EmbedValues }}

SVGBlipUnmarshal ==
    \E start \in SVGBlipStarts, old \in {EmptyStr, FormatRelID(9)} :
        /\ out' = [op |-> "SVGBlipUnmarshalXML", start |-> start, old |-> old,
                   got |-> SVGBlip_UnmarshalXML([EmbedAttr |-> old], start)]
        /\ UNCHANGED <<Images, Rels, ContentTypes, returned, Extra, last,
                        calls, serialized>>

----------------------------------------------------------------------------
(* wml.FallbackDrawing, wml.AlternateContentSVGRun                         *)

MarkupCompatibilityNS == "http://schemas.openxmlformats.org/markup-compatibility/2006"

\* svg_helpers.go:45-48
acElementName == Name(MarkupCompatibilityNS, <<"mc", "AlternateContent">>)

\* svg_helpers.go:62-78
acAttrs ==
    <<Attr(<<"xmlns", "wpg">>, <<"http://schemas.microsoft.com/office/word/2010/wordprocessingGroup">>),
      Attr(<<"xmlns", "mc">>, <<MarkupCompatibilityNS>>),
      Attr(<<"xmlns", "w">>, <<"http://schemas.openxmlformats.org/wordprocessingml/2006/main">>),
      Attr(<<"xmlns", "wp">>, <<"http://schemas.openxmlformats.org/drawingml/2006/wordprocessingDrawing">>),
      Attr(<<"xmlns", "wp14">>, <<"http://schemas.microsoft.com/office/word/2010/wordprocessingDrawing">>),
      Attr(<<"xmlns", "a">>, <<"http://schemas.openxmlformats.org/drawingml/2006/main">>),
      Attr(<<"xmlns", "pic">>, <<PictureURI>>),
      Attr(<<"xmlns", "r">>, <<RelationshipsNS>>),
      Attr(<<"xmlns", "wps">>, <<"http://schemas.microsoft.com/office/word/2010/wordprocessingShape">>),
      Attr(<<"xmlns", "v">>, <<"urn:schemas-microsoft-com:vml">>),
      Attr(<<"xmlns", "w14">>, <<"http://schemas.microsoft.com/office/word/2010/wordml">>),
      Attr(<<"xmlns", "o">>, <<"urn:schemas-microsoft-com:office:office">>),
      Attr(<<"xmlns", "w10">>, <<"urn:schemas-microsoft-com:office:word">>),
      Attr(<<"xmlns", "asvg">>, <<SVGBlipNS>>),
      Attr(<<"mc", "Ignorable">>, <<"wp14 w14 w10 asvg">>)>>

\* svg_helpers.go:86-91
choiceStart == StartElement(Name("", <<"mc", "Choice">>), <<Attr(<<"Requires">>, <<"asvg">>)>>)

\* An encoder call that fails writes nothing and ends the marshalling.
Failure(tokens) == [tokens |-> tokens, err |-> TRUE]

\* svg_helpers.go:17-29; the encoder calls are numbered from `first`.
FallbackDrawing_MarshalXML(f, first, failAt) ==
    LET fb == StartElement(Name("", <<"mc", "Fallback">>), <<>>)
        dStart == StartElement(Name("", <<"w", "drawing">>), <<>>)
    IN IF failAt = first THEN Failure(<<>>)
       ELSE IF f.Drawing # Nil /\ failAt = first + 1 THEN Failure(<<fb>>)
       ELSE LET inner == IF f.Drawing # Nil THEN EncodeElement(f.Drawing, dStart) ELSE <<>>
            IN IF failAt = first + 2 THEN Failure(<<fb>> \o inner)
               ELSE [tokens |-> <<fb>> \o inner \o <<EndElement(fb.Name)>>, err |-> FALSE]

\* svg_helpers.go:55-58
WrapperName(start) == IF start.Name.Local = <<>> THEN acElementName ELSE start.Name

\* svg_helpers.go:84-101: the Choice, then the Fallback
Children(a, failAt) ==
    IF a.Choice # Nil /\ failAt = 2 THEN Failure(<<>>)
    ELSE LET choice == IF a.Choice # Nil THEN EncodeElement(a.Choice, choiceStart) ELSE <<>>
             fb == IF a.Fallback # Nil THEN FallbackDrawing_MarshalXML(a.Fallback, 3, failAt)
                   ELSE [tokens |-> <<>>, err |-> FALSE]
         IN [tokens |-> choice \o fb.tokens, err |-> fb.err]

\* svg_helpers.go:52-104; failAt is the encoder call that returns an error:
\* 1 the start tag, 2 the Choice, 3 to 5 the three calls of the Fallback,
\* 6 the end tag, and 0 when none does.
AlternateContentSVGRun_MarshalXML(a, start, failAt) ==
    LET acStart == StartElement(WrapperName(start), acAttrs)
        inner == Children(a, failAt)
    IN IF failAt = 1 THEN Failure(<<>>)
       ELSE IF inner.err THEN Failure(<<acStart>> \o inner.tokens)
       ELSE IF failAt = 6 THEN Failure(<<acStart>> \o inner.tokens)
       ELSE [tokens |-> <<acStart>> \o inner.tokens \o <<EndElement(acStart.Name)>>,
             err |-> FALSE]

\* The start elements MarshalXML is called with: without a name, as the run
\* does for its Extra list, and with the type's name, as xml.Marshal does
\* (svg_test.go:103).
StartNames == {Name("", <<>>), Name("", <<"AlternateContentSVGRun">>)}

FailPoints == 0..6

\* The values marshalled: the elements AddDrawingInlineSVG appended, and the
\* same without a Choice or without a Fallback.
MarshalInputs ==
    UNION {{Extra[i], [Extra[i] EXCEPT !.Choice = Nil], [Extra[i] EXCEPT !.Fallback = Nil]} :
           i \in {j \in DOMAIN Extra : IsAcRun(Extra[j])}}

MarshalXML ==
    \E a \in MarshalInputs, name \in StartNames, failAt \in FailPoints :
        LET r == AlternateContentSVGRun_MarshalXML(a, StartElement(name, <<>>), failAt) IN
        /\ out' = [op |-> "MarshalXML", a |-> a, start |-> name, failAt |-> failAt,
                   tokens |-> r.tokens, err |-> r.err]
        /\ UNCHANGED <<Images, Rels, ContentTypes, returned, Extra, last,
                        calls, serialized>>

\* The codec runs: a run that holds one fragment.
InitCodec ==
    /\ InitRegistered
    /\ \E svgImg \in Handles, pngImg \in Handles, r1 \in RandVals, r2 \in RandVals :
         LET r == AddDrawingInlineSVGCall(<<>>, svgImg, pngImg, r1, r2) IN
         /\ ~r.err
         /\ Extra = r.extra
         /\ last = [op |-> "AddDrawingInlineSVG", svgImg |-> svgImg, pngImg |-> pngImg,
                    err |-> FALSE]
    /\ out = [op |-> "none"]
    /\ calls = <<>>
    /\ serialized = TRUE

NextCodec ==
    \/ SVGBlipRoundTrip
    \/ SVGBlipUnmarshal
    \/ MarshalXML

SpecCodec == InitCodec /\ [][NextCodec]_vars

----------------------------------------------------------------------------
(* The codec: properties of SpecCodec                                      *)

\* C9: unmarshalling what SVGBlip.MarshalXML writes for EmbedAttr = t gives
\* an SVGBlip with EmbedAttr = t; and from a start element whose attributes
\* are the namespace declaration and the embed attribute, in either order,
\* UnmarshalXML takes the value of the embed attribute.
C9_SVGBlipRoundTrip ==
    /\ out.op = "SVGBlipRoundTrip" =>
        /\ out.written.name = <<"asvg", "svgBlip">>
        /\ out.written.attrs[2].name = <<"r", "embed">>
        /\ out.got = [EmbedAttr |-> out.in]
    /\ out.op = "SVGBlipUnmarshalXML" =>
        \A i \in DOMAIN out.start.Attr :
            out.start.Attr[i].Name.Local = <<"embed">>
                => out.got = [EmbedAttr |-> out.start.Attr[i].Value]

\* The id of a registered SVG handle went through the round trip.
C9_Witness ==
    /\ out.op = "SVGBlipRoundTrip"
    /\ out.in = returned[2].relID
    /\ out.in = FormatRelID(2)
    /\ out.got.EmbedAttr = FormatRelID(2)

\* The embed attribute comes first and the receiver held another id.
C9_WitnessEmbedFirst ==
    /\ out.op = "SVGBlipUnmarshalXML"
    /\ out.start.Attr[1].Name = Name("r", <<"embed">>)
    /\ out.start.Attr[1].Value = FormatRelID(4)
    /\ out.old = FormatRelID(9)
    /\ out.got.EmbedAttr = FormatRelID(4)

StartsOf(tokens, local) ==
    {i \in DOMAIN tokens : tokens[i].tok = "start" /\ tokens[i].Name.Local = local}

EndsOf(tokens, local) ==
    {i \in DOMAIN tokens : tokens[i].tok = "end" /\ tokens[i].Name.Local = local}

\* Every end tag closes the last start tag still open, and none stays open.
RECURSIVE Balanced(_, _, _)
Balanced(tokens, i, open) ==
    IF i > Len(tokens) THEN open = <<>>
    ELSE IF tokens[i].tok = "start" THEN Balanced(tokens, i + 1, <<tokens[i].Name>> \o open)
    ELSE IF tokens[i].tok = "end"
         THEN /\ open # <<>>
              /\ Head(open) = tokens[i].Name
              /\ Balanced(tokens, i + 1, Tail(open))
    ELSE Balanced(tokens, i + 1, open)

\* The tokens of a wrapper named `name` around the two branches of a.
Serialized(tokens, a, name) ==
    /\ tokens = << [tok |-> "start", Name |-> name, Attr |-> acAttrs],
                   [tok |-> "start", Name |-> Name("", <<"mc", "Choice">>),
                    Attr |-> <<[Name |-> Name("", <<"Requires">>), Value |-> <<"asvg">>]>>],
                   [tok |-> "content", of |-> a.Choice],
                   [tok |-> "end", Name |-> Name("", <<"mc", "Choice">>)],
                   [tok |-> "start", Name |-> Name("", <<"mc", "Fallback">>), Attr |-> <<>>],
                   [tok |-> "start", Name |-> Name("", <<"w", "drawing">>), Attr |-> <<>>],
                   [tok |-> "content", of |-> a.Fallback.Drawing],
                   [tok |-> "end", Name |-> Name("", <<"w", "drawing">>)],
                   [tok |-> "end", Name |-> Name("", <<"mc", "Fallback">>)],
                   [tok |-> "end", Name |-> name] >>
    /\ Cardinality(StartsOf(tokens, <<"mc", "Choice">>)) = 1
    /\ Cardinality(StartsOf(tokens, <<"mc", "Fallback">>)) = 1
    /\ \A c \in EndsOf(tokens, <<"mc", "Choice">>) :
         \A f \in StartsOf(tokens, <<"mc", "Fallback">>) : c < f
    /\ Balanced(tokens, 1, <<>>)

\* A fragment as AddDrawingInlineSVG builds it was marshalled and no encoder
\* call failed.
MarshalledFragment ==
    /\ out.op = "MarshalXML"
    /\ out.failAt = 0
    /\ out.a \in {Extra[i] : i \in DOMAIN Extra}

\* C10: serializing a fragment built by AddDrawingInlineSVG emits the
\* mc:AlternateContent start tag with the fixed namespace declarations and
\* the mc:Ignorable list, then one mc:Choice with Requires="asvg" around the
\* preferred branch, then one mc:Fallback around the fallback drawing, then
\* the mc:AlternateContent end tag; every start tag is closed.
C10_WrapperSerialized ==
    MarshalledFragment =>
        /\ ~out.err
        /\ Serialized(out.tokens, out.a, Name(MarkupCompatibilityNS, <<"mc", "AlternateContent">>))

\* What holds of every start element: the wrapper has the name that was
\* passed in, and mc:AlternateContent when none was.
WrapperSerializedUnderGivenName ==
    MarshalledFragment =>
        /\ ~out.err
        /\ Serialized(out.tokens, out.a,
                      IF out.start.Local = <<>>
                      THEN Name(MarkupCompatibilityNS, <<"mc", "AlternateContent">>)
                      ELSE out.start)

----------------------------------------------------------------------------
(* AddImageSVG called from two goroutines on one document.  The code takes  *)
(* no lock, so every read and every write of d.Images, of the relationship  *)
(* list and of the content-type table is a step of its own and the steps of *)
(* the two calls interleave.  x = append(x, e) reads the slice and then     *)
(* stores the longer one.                                                  *)

Procs == {1, 2}

NoRef == MakeImageRef(Image(0, 0, "", 0))

NoRel == [IdAttr |-> EmptyStr, TargetAttr |-> EmptyStr, TypeAttr |-> ""]

\* A call that has not begun
IdleCall ==
    [pc |-> "idle", asset |-> "none", svgLen |-> 0, pngLen |-> 0, width |-> 0, height |-> 0,
     ref |-> NoRef, snap |-> <<>>, fn |-> EmptyStr, rel |-> NoRel,
     png |-> NoRef, svg |-> NoRef, err |-> FALSE, stale |-> FALSE]

InProgress(p) == calls[p].pc \notin {"idle", "done"}

\* svg.go:54
AppendSvg_dropped(images, svgRef) == images

AppendSvg(images, svgRef) == Append(images, ListEntry(svgRef))

\* The extension and the content type registered for the asset in hand
DefaultFor(asset) ==
    IF asset = "png" THEN [ext |-> "png", ctype |-> <<"image/", "png">>]
    ELSE [ext |-> "svg", ctype |-> <<"image/", "svg+xml">>]

\* svg.go:24-36 and the checks of AddImage: the call begins.  With a caller
\* that serializes, it begins only when no other call is in progress.
Begin(p) ==
    \E svgLen \in DataLens, pngLen \in DataLens :
        LET width    == PairSizes[p].X
            height   == PairSizes[p].Y
            pngImage == Image(width, height, "png", pngLen)
            c        == [calls[p] EXCEPT !.svgLen = svgLen, !.pngLen = pngLen,
                                         !.width = width, !.height = height]
        IN
        /\ calls[p].pc = "idle"
        /\ serialized => \A q \in Procs \ {p} : ~InProgress(q)
        /\ calls' = [calls EXCEPT ![p] =
               IF ~ArgsValid(svgLen, pngLen, width, height) \/ AddImageInvalid(pngImage)
               THEN [c EXCEPT !.pc = "return", !.err = TRUE]
               ELSE [c EXCEPT !.pc = "readImages", !.asset = "png",
                              !.ref = MakeImageRef(pngImage)]]
        /\ UNCHANGED <<Images, Rels, ContentTypes, returned, Extra, last, out, serialized>>

\* append(d.Images, ref), first half: the slice is read
ReadImages(p) ==
    /\ calls[p].pc = "readImages"
    /\ calls' = [calls EXCEPT ![p].snap = Images, ![p].pc = "writeImages"]
    /\ UNCHANGED <<Images, Rels, ContentTypes, returned, Extra, last, out, serialized>>

\* d.Images = append(...), second half: the longer slice is stored.  The call
\* notes whether the list had changed since it was read.
WriteImages(p) ==
    /\ calls[p].pc = "writeImages"
    /\ Images' = IF calls[p].asset = "png"
                 THEN Append(calls[p].snap, ListEntry(calls[p].ref))
                 ELSE AppendSvg(calls[p].snap, calls[p].ref)
    /\ calls' = [calls EXCEPT ![p].snap = <<>>, ![p].pc = "readLen",
                              ![p].stale = calls[p].stale \/ Images # calls[p].snap]
    /\ UNCHANGED <<Rels, ContentTypes, returned, Extra, last, out, serialized>>

\* svg.go:55 and the same line of AddImage: len(d.Images) is read
ReadLen(p) ==
    /\ calls[p].pc = "readLen"
    /\ calls' = [calls EXCEPT ![p].fn = IF calls[p].asset = "png"
                                        THEN FormatTarget(Len(Images), "png")
                                        ELSE SvgTarget(Images, "svg"),
                              ![p].pc = "scanRels"]
    /\ UNCHANGED <<Images, Rels, ContentTypes, returned, Extra, last, out, serialized>>

\* AddRelationship (svg.go:56): the ids in use are scanned and an id is chosen
ScanRels(p) ==
    /\ calls[p].pc = "scanRels"
    /\ calls' = [calls EXCEPT ![p].rel = NewRelationship(Rels, calls[p].fn, ImageType),
                              ![p].pc = "readRels"]
    /\ UNCHANGED <<Images, Rels, ContentTypes, returned, Extra, last, out, serialized>>

\* AddRelationship: append to the relationship list, the read
ReadRels(p) ==
    /\ calls[p].pc = "readRels"
    /\ calls' = [calls EXCEPT ![p].snap = Rels, ![p].pc = "writeRels"]
    /\ UNCHANGED <<Images, Rels, ContentTypes, returned, Extra, last, out, serialized>>

\* AddRelationship: append to the relationship list, the store
WriteRels(p) ==
    /\ calls[p].pc = "writeRels"
    /\ Rels' = Append(calls[p].snap, calls[p].rel)
    /\ calls' = [calls EXCEPT ![p].snap = <<>>, ![p].pc = "scanDefaults"]
    /\ UNCHANGED <<Images, ContentTypes, returned, Extra, last, out, serialized>>

\* svg.go:58-59 and the same lines of AddImage: the handle gets its id and
\* its target; after the PNG the call goes on to the SVG (svg.go:42-53).
Linked(c) ==
    IF c.asset = "png"
    THEN [c EXCEPT !.png = SetTarget(SetRelID(c.ref, c.rel.IdAttr), c.fn),
                   !.asset = "svg",
                   !.ref = MakeImageRef(Image(c.width, c.height, "svg", c.svgLen)),
                   !.fn = EmptyStr, !.rel = NoRel, !.snap = <<>>,
                   !.pc = "readImages"]
    ELSE [c EXCEPT !.svg = SvgRefFinal(c.ref, c.rel, c.fn),
                   !.ref = NoRef, !.fn = EmptyStr, !.rel = NoRel, !.snap = <<>>,
                   !.pc = "return"]

\* EnsureDefault (svg.go:57): the table is searched; an entry that is found is
\* set in place, otherwise the table is read for the append
ScanDefaults(p) ==
    /\ calls[p].pc = "scanDefaults"
    /\ IF HasDefault(ContentTypes, DefaultFor(calls[p].asset).ext)
       THEN /\ ContentTypes' = EnsureDefault(ContentTypes, DefaultFor(calls[p].asset).ext,
                                             DefaultFor(calls[p].asset).ctype)
            /\ calls' = [calls EXCEPT ![p] = Linked(calls[p])]
       ELSE /\ ContentTypes' = ContentTypes
            /\ calls' = [calls EXCEPT ![p].snap = ContentTypes, ![p].pc = "writeDefaults"]
    /\ UNCHANGED <<Images, Rels, returned, Extra, last, out, serialized>>

\* EnsureDefault: the table with the new entry is stored
WriteDefaults(p) ==
    /\ calls[p].pc = "writeDefaults"
    /\ ContentTypes' = Append(calls[p].snap, DefaultFor(calls[p].asset))
    /\ calls' = [calls EXCEPT ![p] = Linked(calls[p])]
    /\ UNCHANGED <<Images, Rels, returned, Extra, last, out, serialized>>

\* svg.go:25,28,39,61: the call returns
Return(p) ==
    /\ calls[p].pc = "return"
    /\ returned' = IF calls[p].err THEN returned
                   ELSE returned \o <<calls[p].png, calls[p].svg>>
    /\ last' = [op |-> "AddImageSVG", svgLen |-> calls[p].svgLen, pngLen |-> calls[p].pngLen,
                width |-> calls[p].width, height |-> calls[p].height, err |-> calls[p].err]
    /\ calls' = [calls EXCEPT ![p].pc = "done"]
    /\ UNCHANGED <<Images, Rels, ContentTypes, Extra, out, serialized>>

InitConcurrent ==
    /\ InitDoc
    /\ Extra = <<>>
    /\ last = [op |-> "none"]
    /\ out = [op |-> "none"]
    /\ calls = [p \in Procs |-> IdleCall]
    /\ serialized \in BOOLEAN

NextConcurrent ==
    \E p \in Procs :
        \/ Begin(p)
        \/ ReadImages(p)
        \/ WriteImages(p)
        \/ ReadLen(p)
        \/ ScanRels(p)
        \/ ReadRels(p)
        \/ WriteRels(p)
        \/ ScanDefaults(p)
        \/ WriteDefaults(p)
        \/ Return(p)

SpecConcurrent == InitConcurrent /\ [][NextConcurrent]_vars

----------------------------------------------------------------------------
(* Concurrent registration: properties of SpecConcurrent                    *)

AllReturned == \A p \in Procs : calls[p].pc = "done"

Quiet == \A p \in Procs : ~InProgress(p)

\* Two handles that were returned have the same target path.
SharedTarget ==
    \E i, j \in DOMAIN returned : i # j /\ returned[i].target = returned[j].target

\* The image list is shorter than the number of assets registered.
LostAppend == Quiet /\ Len(Images) < Len(returned)

\* Some call stored its append over a list that had changed since it read it.
StaleAppend == \E p \in Procs : calls[p].stale

\* All target paths and all relationship ids differ, in the handles and in
\* the relationship list, and between calls the image list holds every asset
\* registered, in order, under the number of its position.
SafeRegistration ==
    /\ \A i \in DOMAIN returned :
        /\ returned[i].relID # EmptyStr
        /\ returned[i].target # EmptyStr
    /\ \A i, j \in DOMAIN returned : i # j =>
        /\ returned[i].relID # returned[j].relID
        /\ returned[i].target # returned[j].target
    /\ \A i, j \in DOMAIN Rels : i # j =>
        /\ Rels[i].IdAttr # Rels[j].IdAttr
        /\ Rels[i].TargetAttr # Rels[j].TargetAttr
    /\ Len(Images) >= Len(returned)
    /\ Quiet =>
        /\ Len(Images) = Len(returned)
        /\ \A k \in DOMAIN Images :
            /\ Images[k] = ListEntry(returned[k])
            /\ returned[k].target = FormatTarget(k, Images[k].format)
            /\ \E i \in DOMAIN Rels : /\ Rels[i].IdAttr = returned[k].relID
                                      /\ Rels[i].TargetAttr = returned[k].target

\* C13: AddImageSVG takes no lock.  When the caller serializes the calls, all
\* target paths and all relationship ids differ and no append is lost; when
\* the steps of two calls interleave so that one call stores its append over
\* a list the other has changed in between, an append is lost: the image
\* list ends up shorter than the number of assets registered.
C13_UnsafeUnlessSerialized ==
    /\ serialized => SafeRegistration
    /\ (AllReturned /\ StaleAppend) => LostAppend

\* Two interleaved calls have returned four handles; the image list holds
\* fewer than four assets and the two PNG handles have the same target path.
C13_Witness ==
    /\ ~serialized
    /\ AllReturned
    /\ Len(returned) = 4
    /\ StaleAppend
    /\ LostAppend
    /\ SharedTarget
    /\ returned[1].target = returned[3].target

\* Two serialized calls have returned four handles.
C13_WitnessSerialized ==
    /\ serialized
    /\ AllReturned
    /\ Len(returned) = 4
    /\ Len(Images) = 4

====
